---- MODULE Spec2Model ----
(***************************************************************************)
(* ratatecs: a Bevy plugin (TuiPlugin) that drives a ratatui terminal.     *)
(*                                                                         *)
(* State machine of one application built as in examples/panels.rs:        *)
(*   Update      exit_on_esc, change_counter          (component systems)  *)
(*   PostUpdate  render (core), app_render, counter_render                 *)
(*   Last        get_backend_events, cleanup_on_exit                       *)
(* SpecPanels adds the popup and progress panels of the example:           *)
(*   StateTransition  the transition of PopupState                         *)
(*   Update           toggle_popup                                         *)
(*   PostUpdate       progress_render, popup_render                        *)
(* Systems of one schedule carry no ordering constraint (no .before /      *)
(* .after / .chain in the source), so within a schedule they run in any    *)
(* order; the schedules themselves run in Bevy's Main order.               *)
(***************************************************************************)
EXTENDS Integers, Sequences, FiniteSets, TLC

\* ---------------------------------------------------------------- bounds
MaxTick == 3      \* ticks (App::update calls) explored
MaxZ == 1         \* z_order values are 0..MaxZ
Width == 3        \* frame buffer columns
Height == 1       \* frame buffer rows
MaxQueue == 3     \* widgets pushed before one paint step (SpecPaint)

\* ------------------------------------------------------------- constants
None == "None"                       \* Option::None
Events == {"Esc", "Right", "Left"}   \* crossterm key events the examples read
Blank == 0                           \* a reset buffer cell

\* Outcomes of crossterm::event::poll(..) followed by read().
PollOutcomes == {"PollErr", "NoEvent", "ReadErr"} \cup Events

\* Every key an example reacts to: the popup panel toggles on the space bar.
Keys == Events \cup {"Space"}

UpdateSystems == {"exit_on_esc", "change_counter"}
RenderSystems == {"app_render", "counter_render"}
PostUpdateSystems == RenderSystems \cup {"render"}
LastSystems == {"get_backend_events", "cleanup_on_exit"}
AllSystems == UpdateSystems \cup PostUpdateSystems \cup LastSystems

\* examples/panels.rs, the progress and popup panels. Bevy applies a state
\* transition in the StateTransition schedule.
PopupUpdateSystems == {"toggle_popup"}
PanelRenderSystems == RenderSystems \cup {"progress_render", "popup_render"}
TransitionSystems == {"apply_state_transition"}

Backends == {"Crossterm", "Test"}

\* Results of Terminal::draw: Ok, an error before the render callback is
\* invoked (autoresize), an error after it (flushing the buffer to the device).
\* The TestBackend's operations never fail.
DrawOutcomes(b) == IF b = "Test" THEN {"Ok"} ELSE {"Ok", "ErrResize", "ErrFlush"}

\* ------------------------------------------------------------ rectangles
Rect(x, y, w, h) == [x |-> x, y |-> y, width |-> w, height |-> h]

Cells == (0 .. Width - 1) \X (0 .. Height - 1)

\* frame.area(): the whole buffer.
FrameArea == Rect(0, 0, Width, Height)

\* The areas a component may push: the whole frame, a left part, and one that
\* sticks out of the frame on the right.
Areas == {FrameArea, Rect(0, 0, 2, 1), Rect(1, 0, Width, Height)}

ZOrders == 0 .. MaxZ

\* The cells of the buffer a widget rendered into `area` writes.
Covered(area) ==
    {c \in Cells : /\ area.x <= c[1] /\ c[1] < area.x + area.width
                   /\ area.y <= c[2] /\ c[2] < area.y + area.height}

\* Variant: the buffer built with width and height exchanged.
BlankBufferTransposed == [c \in (0 .. Height - 1) \X (0 .. Width - 1) |-> Blank]

\* Terminal::new(TestBackend::new(width, height)): width x height reset cells.
BlankBuffer == [c \in Cells |-> Blank]

\* A widget is opaque to the core (Box<dyn WidgetRef>); it is modelled by the
\* mark it writes into its area. The widget a render system builds in a tick
\* is a fresh object: its mark is the system and the tick.
SystemIndex(s) ==
    IF s = "app_render" THEN 1
    ELSE IF s = "counter_render" THEN 2
    ELSE IF s = "progress_render" THEN 3
    ELSE 4
WidgetOf(s, t) == Cardinality(PanelRenderSystems) * (t - 1) + SystemIndex(s)
Widgets == 1 .. (Cardinality(PanelRenderSystems) * MaxTick)

VARIABLES
    backend,      \* TuiPlugin.backend
    device,       \* terminal device mode: "raw" | "normal"
    status,       \* process: "running" | "exited" | "panicked"
    tick,         \* number of the current App::update
    done,         \* systems that have run in the current tick
    event,        \* BackendEvent.0
    new_event,    \* get_backend_events: the local new_event of the last call
    exits,        \* Events<AppExit> holds an event
    counter,      \* examples: Counter.0
    widgets,      \* WidgetsToDraw.widgets
    buf,          \* Terminal: the current frame buffer
    screen,       \* what the device shows (the last presented buffer)
    app,          \* App: the plugin handed to it, its resources, systems and state
    hist          \* history of the run, read only by the properties

vars == <<app, backend, device, status, tick, done, event, new_event, exits, counter,
          widgets, buf, screen, hist>>

\* ------------------------------------------------------------- scheduler
\* Variant: get_backend_events added to First instead of Last.
ScheduleOfLatchFirst(s) ==
    IF s = "get_backend_events" THEN "First"
    ELSE IF s \in UpdateSystems THEN "Update"
    ELSE IF s \in PostUpdateSystems THEN "PostUpdate"
    ELSE "Last"

\* The schedule each system is added to (app.add_systems(<schedule>, ..)).
ScheduleOf(s) ==
    IF s \in TransitionSystems THEN "StateTransition"
    ELSE IF s \in UpdateSystems \cup PopupUpdateSystems THEN "Update"
    ELSE IF s \in PostUpdateSystems \cup PanelRenderSystems THEN "PostUpdate"
    ELSE "Last"

\* Bevy's Main schedule runs its schedules in this order, once per update
\* (the schedules between them hold no system of this program).
MainOrder == <<"First", "StateTransition", "Update", "PostUpdate", "Last">>

\* The schedule that is running: the first one, in Main order, that holds a
\* system of the App still to run in this update.
Schedule ==
    LET pending == {ScheduleOf(s) : s \in app.systems \ done}
    IN  IF pending = {} THEN "End"
        ELSE MainOrder[CHOOSE i \in DOMAIN MainOrder :
                           /\ MainOrder[i] \in pending
                           /\ \A j \in 1 .. i - 1 : MainOrder[j] \notin pending]

\* Systems of one schedule are unordered: any one that has not run may run next.
CanRun(s) == status = "running" /\ s \notin done /\ ScheduleOf(s) = Schedule

Note(fields) == [f \in DOMAIN hist |-> IF f \in DOMAIN fields THEN fields[f] ELSE hist[f]]

\* ------------------------------------------------------------ TuiPlugin
\* ratatui::init() puts the device in raw mode / alternate screen and installs
\* a panic hook that restores it; the test backend touches no device.
InitDevice(b) == IF b = "Crossterm" THEN "raw" ELSE "normal"

\* ratatui::restore(): the device is back in its pre-launch mode.
Restore(dev) == "normal"

\* Calls of ratatui::restore() a panic makes through the hook.
HookRestores(b) == IF b = "Crossterm" THEN 1 ELSE 0

\* Variant: a terminal set up without the panic hook.
NoPanicHook(b, dev) == dev

\* The panic hook installed by ratatui::init(): restore, then the default hook.
\* The test backend installs none.
PanicHook(b, dev) == IF b = "Crossterm" THEN Restore(dev) ELSE dev

\* Option<(u16, u16)>
NoSize == <<>>
Some(size) == <<size>>
Sizes == {NoSize} \cup {Some(<<w, h>>) : w \in 0 .. Width, h \in 0 .. Height}

PluginTypes == {"TuiPlugin", "RatatEcsPlugins"}

\* #[derive(Default)]: BackendKind's #[default] is Crossterm, Option's is None.
Default(type) == [type |-> type, backend |-> "Crossterm", size |-> NoSize]

\* Variant: test_backend dropping the dimensions it is given.
TestBackendWithoutSize(type, width, height) ==
    [type |-> type, backend |-> "Test", size |-> NoSize]

\* pub fn test_backend(width, height) -> Self, of either type
TestBackend(type, width, height) ==
    [type |-> type, backend |-> "Test", size |-> Some(<<width, height>>)]

NoPlugin == [type |-> None, backend |-> None, size |-> NoSize]

\* Variant: the size looked up and the terminal acquired before anything is
\* registered.
BuildOrderTerminalFirst ==
    <<"terminal", "BackendEvent", "Last", "render", "WidgetsToDraw">>

\* The statements of TuiPlugin::build, in program order.
BuildOrder == <<"BackendEvent", "Last", "render", "terminal", "WidgetsToDraw">>

CoreResources == {"BackendEvent", "TerminalWrapper", "WidgetsToDraw"}
CoreSystems == LastSystems \cup {"render"}
GroupPlugins == {"TuiPlugin", "StatesPlugin", "ScheduleRunnerPlugin"}

\* The App once RatatEcsPlugins has been built into it: default() for the
\* interactive backend, test_backend(Width, Height) for the headless one.
Built(b) ==
    [via |-> IF b = "Crossterm" THEN "default" ELSE "test_backend",
     plugin |-> IF b = "Crossterm" THEN Default("TuiPlugin")
                ELSE TestBackend("TuiPlugin", Width, Height),
     plugins |-> GroupPlugins,
     pc |-> Len(BuildOrder) + 1,
     resources |-> CoreResources,
     systems |-> CoreSystems,
     state |-> None,
     next_state |-> None]

\* app.add_plugins(panel): the systems of a component are added to the App.
AddSystems(a, systems) == [a EXCEPT !.systems = @ \cup systems]

Init ==
    /\ backend \in Backends
    /\ app = AddSystems(Built(backend), UpdateSystems \cup RenderSystems)
    /\ device = InitDevice(backend)
    /\ status = "running"
    /\ tick = 1
    /\ done = {}
    /\ event = None
    /\ new_event = None
    /\ exits = FALSE
    /\ counter = 0
    /\ widgets = <<>>
    /\ buf = BlankBuffer
    /\ screen = BlankBuffer
    /\ hist = [last |-> "build", polled |-> "None", before |-> None, refresh_tick |-> 0,
               read |-> None, read_tick |-> 0, exit_tick |-> 0, close_tick |-> 0,
               closes |-> 0, last_draw |-> "None", last_cb |-> "None",
               stale |-> FALSE, drained |-> <<>>,
               paint_count |-> [w \in Widgets |-> 0]]

\* ------------------------------------------------------------ Event Latch
\* Variant: a failed poll or read passed on as a value instead of dropped by ok().
NewEventKeepsError(outcome) == IF outcome = "NoEvent" THEN None ELSE outcome

\* poll(..).ok().and_then(|has| if has { read().ok() } else { None })
NewEvent(outcome) == IF outcome \in Keys THEN outcome ELSE None

\* Variants of the match: the latch held while no event arrives; the arm
\* that clears tried before the arm that replaces.
LatchLevelHeld(ev, new) == IF new # None THEN new ELSE ev
LatchClearFirst(ev, new) == IF ev # None THEN None ELSE new

\* match (event.0.is_some(), new_event.is_some())
Latch(ev, new) ==
    IF new # None THEN new
    ELSE IF ev # None THEN None
    ELSE ev

get_backend_events(outcome) ==
    /\ CanRun("get_backend_events")
    /\ new_event' = NewEvent(outcome)
    /\ event' = Latch(event, new_event')
    /\ done' = done \cup {"get_backend_events"}
    /\ hist' = Note([last |-> "get_backend_events", polled |-> outcome, before |-> event,
                     refresh_tick |-> tick])
    /\ UNCHANGED <<app, backend, device, status, tick, exits, counter, widgets,
                   buf, screen>>

\* ------------------------------------------------------- Terminal Session
\* Variant: the test inverted (exits.is_empty()).
ShouldCloseInverted(ex) == ~ex

\* if !exits.is_empty() { ratatui::restore(); }
ShouldClose(ex) == ex

cleanup_on_exit ==
    /\ CanRun("cleanup_on_exit")
    /\ backend = "Crossterm"
    /\ IF ShouldClose(exits)
         THEN /\ device' = Restore(device)
              /\ hist' = Note([last |-> "cleanup_on_exit", close_tick |-> tick,
                               closes |-> hist.closes + 1])
         ELSE /\ device' = device
              /\ hist' = Note([last |-> "cleanup_on_exit"])
    /\ done' = done \cup {"cleanup_on_exit"}
    /\ UNCHANGED <<app, backend, status, tick, event, new_event, exits, counter,
                   widgets, buf, screen>>

\* With the test backend the system is still cleanup_on_exit::<CrosstermBackend<Stdout>>:
\* its NonSend<TerminalWrapper<CrosstermBackend<Stdout>>> parameter names a
\* resource that was never inserted. Depending on the Bevy release the scheduler
\* skips such a system or panics when it is run.
cleanup_on_exit_missing_resource ==
    /\ CanRun("cleanup_on_exit")
    /\ backend = "Test"
    /\ \/ /\ done' = done \cup {"cleanup_on_exit"}
          /\ hist' = Note([last |-> "cleanup_on_exit"])
          /\ UNCHANGED <<status, device>>
       \/ /\ status' = "panicked"
          /\ device' = PanicHook(backend, device)
          /\ hist' = Note([last |-> "cleanup_on_exit"])
          /\ done' = done
    /\ UNCHANGED <<app, backend, tick, event, new_event, exits, counter, widgets,
                   buf, screen>>

\* ------------------------------------------------- component update systems
\* if key_event.code == KeyCode::Esc { exit.send(AppExit::Success); }
exit_on_esc ==
    /\ CanRun("exit_on_esc")
    /\ exits' = (exits \/ event = "Esc")
    /\ done' = done \cup {"exit_on_esc"}
    /\ hist' = Note([last |-> "exit_on_esc", read |-> event, read_tick |-> tick,
                     exit_tick |-> IF event = "Esc" /\ ~exits THEN tick
                                   ELSE hist.exit_tick])
    /\ UNCHANGED <<app, backend, device, status, tick, event, new_event, counter,
                   widgets, buf, screen>>

\* Left => counter.0.saturating_sub(1), Right => counter.0 += 1
ChangeCounter(n, ev) ==
    IF ev = "Left" THEN (IF n = 0 THEN 0 ELSE n - 1)
    ELSE IF ev = "Right" THEN n + 1
    ELSE n

change_counter ==
    /\ CanRun("change_counter")
    /\ counter' = ChangeCounter(counter, event)
    /\ done' = done \cup {"change_counter"}
    /\ hist' = Note([last |-> "change_counter", read |-> event, read_tick |-> tick])
    /\ UNCHANGED <<app, backend, device, status, tick, event, new_event, exits,
                   widgets, buf, screen>>

\* ------------------------------------------------------ Widget Compositor
ScopedWidget(w, area, z) == [widget |-> w, area |-> area, z_order |-> z]

\* WidgetDrawer::push_widget: self.widgets.widgets.push(ScopedWidget {..})
push_widget(ws, w, area, z) == Append(ws, ScopedWidget(w, area, z))

\* A component's render system: it pushes one widget for this frame. The widget
\* is opaque to the core; it is modelled by the mark it writes into its area.
component_render(s, area, z) ==
    /\ CanRun(s)
    /\ widgets' = push_widget(widgets, WidgetOf(s, tick), area, z)
    /\ done' = done \cup {s}
    /\ hist' = Note([last |-> s])
    /\ UNCHANGED <<app, backend, device, status, tick, event, new_event, exits,
                   counter, buf, screen>>

\* examples/panels.rs: app pushes a block over the whole frame at order 0,
\* counter a panel inset in the frame at order 1 (the insets of 10 and 20
\* cells are scaled to the model's frame).
\* progress is a panel of order 1 beside the counter, the popup a panel of
\* order 2 that lies over both.
PanelArea(s) ==
    IF s = "app_render" THEN FrameArea
    ELSE IF s = "counter_render" THEN Rect(1, 0, Width - 1, Height)
    ELSE IF s = "progress_render" THEN Rect(0, 0, 1, Height)
    ELSE Rect(0, 0, 2, Height)

\* Variant: the popup pushed at the order of the panels it lies over.
PanelOrderFlat(s) == IF s = "app_render" THEN 0 ELSE 1

PanelOrder(s) ==
    IF s = "app_render" THEN 0
    ELSE IF s = "popup_render" THEN 2
    ELSE 1

\* Variant: an insertion that places a widget before the widgets of equal key
\* (a sort that is not stable).
RECURSIVE InsertBeforeEqual(_, _)
InsertBeforeEqual(sorted, sw) ==
    IF sorted = <<>> THEN <<sw>>
    ELSE IF Head(sorted).z_order < sw.z_order
         THEN <<Head(sorted)>> \o InsertBeforeEqual(Tail(sorted), sw)
         ELSE <<sw>> \o sorted

\* Vec::sort_by_key: a stable sort, ascending in the key. Insert places a
\* widget behind every widget whose key is not larger.
RECURSIVE Insert(_, _)
Insert(sorted, sw) ==
    IF sorted = <<>> THEN <<sw>>
    ELSE IF Head(sorted).z_order <= sw.z_order
         THEN <<Head(sorted)>> \o Insert(Tail(sorted), sw)
         ELSE <<sw>> \o sorted

\* Variant: the queue painted in push order, unsorted.
Unsorted(ws) == ws

RECURSIVE sort_by_key(_)
sort_by_key(ws) ==
    IF ws = <<>> THEN <<>>
    ELSE Insert(sort_by_key(SubSeq(ws, 1, Len(ws) - 1)), ws[Len(ws)])

\* widget.render_ref(area, buf): the widget writes the cells of its area that
\* lie inside the buffer.
render_ref(sw, b) == [c \in Cells |-> IF c \in Covered(sw.area) THEN sw.widget ELSE b[c]]

\* for ScopedWidget {..} in widgets.drain(..) { widget.render_ref(area, buf) }
RECURSIVE PaintAll(_, _)
PaintAll(ws, b) ==
    IF ws = <<>> THEN b ELSE PaintAll(Tail(ws), render_ref(Head(ws), b))

\* Variant: the queue iterated (iter()) instead of drained.
Undrained(ws) == ws

\* What Vec::drain(..) leaves in the vector.
Drain(ws) == <<>>

\* Variant: buffers swapped without resetting the new current one.
SwappedBufferKept(painted) == painted

\* Terminal::swap_buffers at the end of a completed draw: the buffer the next
\* frame is painted into is reset.
SwappedBuffer(painted) == BlankBuffer

\* The render callback handed to Terminal::draw.
RenderCallback(ws, b) == PaintAll(sort_by_key(ws), b)

\* Variant: the result of draw unwrapped instead of discarded.
UnwrapResult(st, outcome) == IF outcome = "Ok" THEN st ELSE "panicked"

\* let _ = terminal.draw(..): the io::Result is dropped, an Err goes nowhere.
DiscardResult(st, outcome) == st

\* The core render system. Terminal::draw resizes, invokes the callback on the
\* current buffer, flushes the buffer to the device and swaps the buffers (the
\* new current buffer is reset); each `?` in it returns early. The result is
\* discarded (let _ = ..).
render(outcome) ==
    /\ CanRun("render")
    /\ outcome \in DrawOutcomes(backend)
    /\ done' = done \cup {"render"}
    /\ IF outcome = "ErrResize"
         THEN /\ UNCHANGED <<widgets, buf, screen>>
              /\ hist' = Note([last |-> "render", last_draw |-> outcome])
         ELSE /\ widgets' = Drain(widgets)
              /\ LET painted == RenderCallback(widgets, buf)
                 IN  IF outcome = "Ok"
                       THEN screen' = painted /\ buf' = SwappedBuffer(painted)
                       ELSE screen' = screen /\ buf' = painted
              /\ hist' = Note([last |-> "render", last_draw |-> outcome,
                     last_cb |-> outcome, stale |-> (hist.last_cb = "ErrFlush"),
                     drained |-> widgets,
                     paint_count |-> [i \in Widgets |->
                         IF \E k \in DOMAIN widgets : widgets[k].widget = i
                         THEN hist.paint_count[i] + 1 ELSE hist.paint_count[i]]])
    /\ status' = DiscardResult(status, outcome)
    /\ UNCHANGED <<app, backend, device, tick, event, new_event, exits, counter>>

\* ------------------------------------------------------------------ panic
\* A component system fails (examples/panels.rs: `area.width / 2 - 20` and
\* `area.height - 20` overflow on a small frame in a build with overflow
\* checks); the panic unwinds through the scheduler and ends the process.
counter_render_panic ==
    /\ CanRun("counter_render")
    /\ status' = "panicked"
    /\ device' = PanicHook(backend, device)
    /\ hist' = Note([last |-> "panic", closes |-> hist.closes + HookRestores(backend)])
    /\ UNCHANGED <<app, backend, tick, done, event, new_event, exits, counter,
                   widgets, buf, screen>>

\* ----------------------------------------------------------------- runner
\* Variant: the exit taking effect as soon as it is raised, mid-tick.
runner_exits_mid_tick ==
    /\ status = "running"
    /\ IF exits
         THEN status' = "exited" /\ UNCHANGED <<tick, done>>
         ELSE Schedule = "End" /\ tick < MaxTick /\ tick' = tick + 1 /\ done' = {}
              /\ status' = status
    /\ hist' = Note([last |-> "runner"])
    /\ UNCHANGED <<app, backend, device, event, new_event, exits, counter, widgets,
                   buf, screen>>

\* Variant: a runner that never looks at should_exit.
runner_ignores_exit ==
    /\ status = "running"
    /\ Schedule = "End"
    /\ tick < MaxTick /\ tick' = tick + 1 /\ done' = {} /\ status' = status
    /\ hist' = Note([last |-> "runner"])
    /\ UNCHANGED <<app, backend, device, event, new_event, exits, counter, widgets,
                   buf, screen>>

\* ScheduleRunnerPlugin, RunMode::Loop: app.update(); if app.should_exit()
\* is Some the loop returns, else the next update starts.
runner ==
    /\ status = "running"
    /\ Schedule = "End"
    /\ IF exits
         THEN status' = "exited" /\ UNCHANGED <<tick, done>>
         ELSE tick < MaxTick /\ tick' = tick + 1 /\ done' = {} /\ status' = status
    /\ hist' = Note([last |-> "runner"])
    /\ UNCHANGED <<app, backend, device, event, new_event, exits, counter, widgets,
                   buf, screen>>

Next ==
    \/ exit_on_esc
    \/ change_counter
    \/ \E s \in RenderSystems : component_render(s, PanelArea(s), PanelOrder(s))
    \/ \E outcome \in {"Ok", "ErrResize", "ErrFlush"} : render(outcome)
    \/ counter_render_panic
    \/ \E outcome \in PollOutcomes : get_backend_events(outcome)
    \/ cleanup_on_exit
    \/ cleanup_on_exit_missing_resource
    \/ runner

Spec == Init /\ [][Next]_vars

\* ----------------------------------------------- widgets and the buffer
\* The area of a buffer: its columns and rows, from the origin.
BufferArea(b) ==
    Rect(0, 0, Cardinality({c[1] : c \in DOMAIN b}), Cardinality({c[2] : c \in DOMAIN b}))

\* WidgetDrawer::get_frame: a frame over the terminal's current buffer.
get_frame == [area |-> BufferArea(buf), buffer |-> buf]

\* The area lies inside the buffer.
Fits(area) ==
    /\ area.x + area.width <= Width
    /\ area.y + area.height <= Height

\* render hands each widget its area as pushed, unclipped. What happens outside
\* the buffer is the widget's business: most ratatui widgets intersect the area
\* with the buffer (render_ref above); one that indexes the cells of its area
\* directly (ratatui's Clear, pushed by popup::render) panics on the first cell
\* outside the buffer, inside the draw callback.
render_widget_panic ==
    /\ CanRun("render")
    /\ \E k \in DOMAIN widgets : ~Fits(widgets[k].area)
    /\ status' = "panicked"
    /\ device' = PanicHook(backend, device)
    /\ hist' = Note([last |-> "render_panic", drained |-> widgets,
                     closes |-> hist.closes + HookRestores(backend)])
    /\ UNCHANGED <<app, backend, tick, done, event, new_event, exits, counter,
                   widgets, buf, screen>>

\* ------------------------------------------------------ one paint step
\* The compositor on its own: the render systems of a frame push up to MaxQueue
\* widgets of any area and order, then the core render system paints.
push(area, z) ==
    /\ status = "running"
    /\ Schedule = "PostUpdate"
    /\ "render" \notin done
    /\ Len(widgets) < MaxQueue
    /\ widgets' = push_widget(widgets, Len(widgets) + 1, area, z)
    /\ hist' = Note([last |-> "push"])
    /\ UNCHANGED <<app, backend, device, status, tick, done, event, new_event, exits,
                   counter, buf, screen>>

InitPaint ==
    /\ backend \in Backends
    /\ app = AddSystems(Built(backend), UpdateSystems \cup RenderSystems)
    /\ device = InitDevice(backend)
    /\ status = "running"
    /\ tick = 1
    /\ done = UpdateSystems
    /\ event = None
    /\ new_event = None
    /\ exits = FALSE
    /\ counter = 0
    /\ widgets = <<>>
    /\ buf = BlankBuffer
    /\ screen = BlankBuffer
    /\ hist = [last |-> "change_counter", polled |-> "None", before |-> None,
               refresh_tick |-> 0, read |-> None, read_tick |-> 1, exit_tick |-> 0,
               close_tick |-> 0, closes |-> 0, last_draw |-> "None", last_cb |-> "None",
               stale |-> FALSE, drained |-> <<>>,
               paint_count |-> [w \in Widgets |-> 0]]

NextPaint ==
    \/ \E area \in Areas, z \in ZOrders : push(area, z)
    \/ \E outcome \in {"Ok", "ErrResize", "ErrFlush"} : render(outcome)
    \/ render_widget_panic

SpecPaint == InitPaint /\ [][NextPaint]_vars

\* ------------------------------------------------------ building the App
\* What a build step leaves alone: the run has not started.
BuildUnchanged ==
    UNCHANGED <<tick, done, event, new_event, exits, counter, widgets, buf, screen>>

Construct(via, p) ==
    /\ status = "running" /\ app.plugin = NoPlugin
    /\ app' = [app EXCEPT !.via = via, !.plugin = p,
                          !.plugins = IF p.type = "TuiPlugin" THEN {"TuiPlugin"} ELSE {}]
    /\ backend' = p.backend
    /\ hist' = Note([last |-> via])
    /\ UNCHANGED <<device, status>>
    /\ BuildUnchanged

\* TuiPlugin::new(), RatatEcsPlugins::new(): Self::default()
new(type) == Construct("new", Default(type))

\* TuiPlugin::default(), RatatEcsPlugins::default()
default(type) == Construct("default", Default(type))

\* TuiPlugin::test_backend(w, h), RatatEcsPlugins::test_backend(w, h)
test_backend(type, width, height) ==
    Construct("test_backend", TestBackend(type, width, height))

\* A struct literal, which only code of the crate can write (private fields):
\* any backend with any size.
struct_literal(type, b, size) ==
    Construct("literal", [type |-> type, backend |-> b, size |-> size])

\* <RatatEcsPlugins as PluginGroup>::build: the group hands its fields to a
\* TuiPlugin and adds StatesPlugin and the loop runner.
plugin_group_build ==
    /\ status = "running" /\ app.plugin.type = "RatatEcsPlugins"
    /\ app' = [app EXCEPT !.plugin = [type |-> "TuiPlugin",
                                      backend |-> app.plugin.backend,
                                      size |-> app.plugin.size],
                          !.plugins = GroupPlugins]
    /\ hist' = Note([last |-> "plugin_group_build"])
    /\ UNCHANGED <<backend, device, status>>
    /\ BuildUnchanged

\* The statement of TuiPlugin::build that runs next.
AtStep(name) ==
    /\ status = "running" /\ "TuiPlugin" \in app.plugins
    /\ app.pc \in DOMAIN BuildOrder /\ BuildOrder[app.pc] = name

\* app.insert_resource(BackendEvent(None))
insert_backend_event ==
    /\ AtStep("BackendEvent")
    /\ app' = [app EXCEPT !.pc = @ + 1, !.resources = @ \cup {"BackendEvent"}]
    /\ hist' = Note([last |-> "insert_backend_event"])
    /\ UNCHANGED <<backend, device, status>>
    /\ BuildUnchanged

\* app.add_systems(Last, (get_backend_events, cleanup_on_exit::<..>))
add_last_systems ==
    /\ AtStep("Last")
    /\ app' = [app EXCEPT !.pc = @ + 1, !.systems = @ \cup LastSystems]
    /\ hist' = Note([last |-> "add_last_systems"])
    /\ UNCHANGED <<backend, device, status>>
    /\ BuildUnchanged

\* app.add_systems(PostUpdate, render::<B>), the first statement of either arm
add_render ==
    /\ AtStep("render")
    /\ app' = [app EXCEPT !.pc = @ + 1, !.systems = @ \cup {"render"}]
    /\ hist' = Note([last |-> "add_render"])
    /\ UNCHANGED <<backend, device, status>>
    /\ BuildUnchanged

\* What acquiring the terminal can come to: ratatui::init() panics when the
\* device refuses raw mode or the alternate screen; the test backend needs the
\* size and then never fails.
TerminalOutcomes(p) ==
    IF p.backend = "Crossterm" THEN {"Ok", "InitFailed"}
    ELSE IF p.size = NoSize THEN {"SizeMissing"}
    ELSE {"Ok"}

\* let terminal = ..; app.insert_non_send_resource(TerminalWrapper { terminal })
acquire_terminal(outcome) ==
    /\ AtStep("terminal") /\ outcome \in TerminalOutcomes(app.plugin)
    /\ IF outcome = "Ok"
         THEN /\ app' = [app EXCEPT !.pc = @ + 1,
                                    !.resources = @ \cup {"TerminalWrapper"}]
              /\ device' = InitDevice(app.plugin.backend)
              /\ status' = status
         ELSE /\ app' = app
              /\ device' = PanicHook(app.plugin.backend, device)
              /\ status' = "panicked"
    /\ hist' = Note([last |-> IF outcome = "Ok" THEN "acquire_terminal" ELSE outcome])
    /\ UNCHANGED backend
    /\ BuildUnchanged

\* app.insert_non_send_resource(WidgetsToDraw { widgets: vec![] })
insert_widgets_to_draw ==
    /\ AtStep("WidgetsToDraw")
    /\ app' = [app EXCEPT !.pc = @ + 1, !.resources = @ \cup {"WidgetsToDraw"}]
    /\ widgets' = <<>>
    /\ hist' = Note([last |-> "insert_widgets_to_draw"])
    /\ UNCHANGED <<backend, device, status, tick, done, event, new_event, exits,
                   counter, buf, screen>>

\* Before main: no plugin value, an empty App, the device as launched.
InitBuild ==
    /\ app = [via |-> None, plugin |-> NoPlugin, plugins |-> {}, pc |-> 1,
              resources |-> {}, systems |-> {}, state |-> None, next_state |-> None]
    /\ backend = None
    /\ device = "normal"
    /\ status = "running"
    /\ tick = 0
    /\ done = {}
    /\ event = None
    /\ new_event = None
    /\ exits = FALSE
    /\ counter = 0
    /\ widgets = <<>>
    /\ buf = BlankBuffer
    /\ screen = BlankBuffer
    /\ hist = [last |-> "main", polled |-> "None", before |-> None, refresh_tick |-> 0,
               read |-> None, read_tick |-> 0, exit_tick |-> 0, close_tick |-> 0,
               closes |-> 0, last_draw |-> "None", last_cb |-> "None",
               stale |-> FALSE, drained |-> <<>>,
               paint_count |-> [w \in Widgets |-> 0]]

NextBuild ==
    \/ \E type \in PluginTypes : new(type)
    \/ \E type \in PluginTypes : default(type)
    \/ \E type \in PluginTypes, w \in 0 .. Width, h \in 0 .. Height :
          test_backend(type, w, h)
    \/ \E type \in PluginTypes, b \in Backends, size \in Sizes :
          struct_literal(type, b, size)
    \/ plugin_group_build
    \/ insert_backend_event
    \/ add_last_systems
    \/ add_render
    \/ \E outcome \in {"Ok", "InitFailed", "SizeMissing"} : acquire_terminal(outcome)
    \/ insert_widgets_to_draw

SpecBuild == InitBuild /\ [][NextBuild]_vars

\* ------------------------------------------------- examples/panels.rs popup
\* ratatui's Clear: it resets every cell of its area.
Clear == Blank

\* match current_state.get() { Open => Closed, Closed => Open }
Toggled(state) == IF state = "Open" THEN "Closed" ELSE "Open"

\* Bevy's StateTransition schedule: a pending NextState becomes the State.
apply_state_transition ==
    /\ CanRun("apply_state_transition")
    /\ app' = [app EXCEPT !.state = IF app.next_state # None THEN app.next_state ELSE @,
                          !.next_state = None]
    /\ done' = done \cup {"apply_state_transition"}
    /\ hist' = Note([last |-> "apply_state_transition"])
    /\ UNCHANGED <<backend, device, status, tick, event, new_event, exits, counter,
                   widgets, buf, screen>>

\* if key_event.code == KeyCode::Char(' ') { next_state.set(..) }
toggle_popup ==
    /\ CanRun("toggle_popup")
    /\ app' = [app EXCEPT !.next_state = IF event = "Space" THEN Toggled(app.state) ELSE @]
    /\ done' = done \cup {"toggle_popup"}
    /\ hist' = Note([last |-> "toggle_popup", read |-> event, read_tick |-> tick])
    /\ UNCHANGED <<backend, device, status, tick, event, new_event, exits, counter,
                   widgets, buf, screen>>

\* popup::render under run_if(in_state(PopupState::Open)): while the popup is
\* closed the system is skipped; while it is open it pushes Clear and then the
\* paragraph, on one area and at one order.
popup_render ==
    /\ CanRun("popup_render")
    /\ widgets' =
         IF app.state = "Open"
         THEN push_widget(push_widget(widgets, Clear, PanelArea("popup_render"),
                                      PanelOrder("popup_render")),
                          WidgetOf("popup_render", tick), PanelArea("popup_render"),
                          PanelOrder("popup_render"))
         ELSE widgets
    /\ done' = done \cup {"popup_render"}
    /\ hist' = Note([last |-> IF app.state = "Open" THEN "popup_render" ELSE "popup_skipped"])
    /\ UNCHANGED <<app, backend, device, status, tick, event, new_event, exits,
                   counter, buf, screen>>

\* `area.width / 2 - 50` and `area.height / 2 - 2` overflow on a frame narrower
\* than 100 columns or lower than 4 rows: popup::render panics in a build with
\* overflow checks. (In a build without them the area wraps out of the buffer
\* and Clear panics when it is painted: render_widget_panic.)
popup_render_panic ==
    /\ CanRun("popup_render") /\ app.state = "Open"
    /\ status' = "panicked"
    /\ device' = PanicHook(backend, device)
    /\ hist' = Note([last |-> "panic", closes |-> hist.closes + HookRestores(backend)])
    /\ UNCHANGED <<app, backend, tick, done, event, new_event, exits, counter,
                   widgets, buf, screen>>

\* The draws followed here succeed or fail before the callback (the queue is
\* kept for the next paint step); a draw that fails after the callback drains
\* and paints as a successful one does.
PopupDrawOutcomes == {"Ok", "ErrResize"}

\* What the terminal delivers in this example's runs: the space bar or nothing.
PopupPollOutcomes == {"Space", "NoEvent"}

\* The units the four panels push in tick t when every render system runs, in
\* the order app, counter, progress, popup.
RECURSIVE PushAll(_, _, _)
PushAll(order, t, state) ==
    IF order = <<>> THEN <<>>
    ELSE LET s == order[Len(order)]
             ws == PushAll(SubSeq(order, 1, Len(order) - 1), t, state)
         IN  IF s # "popup_render"
               THEN push_widget(ws, WidgetOf(s, t), PanelArea(s), PanelOrder(s))
             ELSE IF state = "Open"
               THEN push_widget(push_widget(ws, Clear, PanelArea(s), PanelOrder(s)),
                                WidgetOf(s, t), PanelArea(s), PanelOrder(s))
             ELSE ws

\* What the device shows after a tick t in which every panel was painted.
FrameOf(t, state) ==
    RenderCallback(PushAll(<<"app_render", "counter_render", "progress_render",
                             "popup_render">>, t, state), BlankBuffer)

\* main of examples/panels.rs: the interactive backend and the four panels.
\* The popup starts Closed (#[default]) and cannot be open before the third
\* tick, so the specification follows the last two ticks of a run: it starts
\* at the boundary before tick MaxTick - 1, the tick before having painted
\* every panel, with the popup open or closed, a transition pending or not,
\* and the space bar latched or not. The update systems of the other panels
\* (exit_on_esc, change_counter, change_progress) touch neither the queue nor
\* the popup state and are not registered here.
InitPanels ==
    /\ backend = "Crossterm"
    /\ \E state \in {"Open", "Closed"}, next \in {None, "Open", "Closed"} :
          /\ next \in {None, Toggled(state)}
          /\ app = [AddSystems(Built(backend),
                       TransitionSystems \cup PopupUpdateSystems \cup PanelRenderSystems)
                      EXCEPT !.state = state, !.next_state = next]
          /\ screen = FrameOf(MaxTick - 2, state)
    /\ device = InitDevice(backend)
    /\ status = "running"
    /\ tick = MaxTick - 1
    /\ done = {}
    /\ event \in {None, "Space"}
    /\ new_event = event
    /\ exits = FALSE
    /\ counter = 0
    /\ widgets = <<>>
    /\ buf = BlankBuffer
    /\ hist = [last |-> "runner", polled |-> "None", before |-> None, refresh_tick |-> 0,
               read |-> None, read_tick |-> 0, exit_tick |-> 0, close_tick |-> 0,
               closes |-> 0, last_draw |-> "Ok", last_cb |-> "Ok",
               stale |-> FALSE, drained |-> <<>>,
               paint_count |-> [w \in Widgets |-> 0]]

NextPanels ==
    \/ apply_state_transition
    \/ toggle_popup
    \/ \E s \in PanelRenderSystems \ {"popup_render"} :
          component_render(s, PanelArea(s), PanelOrder(s))
    \/ popup_render
    \/ popup_render_panic
    \/ \E outcome \in PopupDrawOutcomes : render(outcome)
    \/ \E outcome \in PopupPollOutcomes : get_backend_events(outcome)
    \/ cleanup_on_exit
    \/ runner

SpecPanels == InitPanels /\ [][NextPanels]_vars

\* ------------------------------------------------------------ properties
Refreshed == hist.last = "get_backend_events"

\* C1: a latch refresh that obtains no new input event (nothing pending, or a
\* failed poll or read) leaves the latch empty, whether it held a value or not.
C1_NoInputClearsLatch == (Refreshed /\ hist.polled \notin Events) => event = None

\* A refresh without input has just cleared a latch that held an event.
C1_Witness ==
    Refreshed /\ hist.polled \notin Events /\ hist.before # None /\ event = None

\* C2: a latch refresh that obtains a new input event leaves exactly that event
\* in the latch, whatever the latch held before.
C2_InputReplacesLatch == (Refreshed /\ hist.polled \in Events) => event = hist.polled

\* A refresh has just replaced a latched event by a different one.
C2_Witness ==
    /\ Refreshed /\ hist.polled \in Events
    /\ hist.before # None /\ hist.before # hist.polled /\ event = hist.polled

Painted == hist.last = "render"

\* C3 (as claimed): right after the core paint step the queue is empty, whether
\* the draw succeeded or failed, also when it failed before the callback ran.
C3_QueueEmptyAfterPaint == Painted => widgets = <<>>

\* The cells the last paint step produced: the presented buffer, or the current
\* buffer when the draw failed after the callback.
PaintedBuffer == IF hist.last_draw = "Ok" THEN screen ELSE buf

CallbackRan == Painted /\ hist.last_draw # "ErrResize"

\* Widget k of the drained queue is painted over widget j: larger key, or equal
\* key and pushed later.
Above(k, j) ==
    LET q == hist.drained
    IN  q[k].z_order > q[j].z_order \/ (q[k].z_order = q[j].z_order /\ k > j)

\* Cell c of the overlap of i and j shows j: never i, and j itself unless a
\* third widget covering c is painted over j.
OverlapShows(i, j, c) ==
    LET q == hist.drained
    IN  /\ PaintedBuffer[c] # q[i].widget
        /\ (\A k \in DOMAIN q \ {i, j} : c \in Covered(q[k].area) => ~Above(k, j))
              => PaintedBuffer[c] = q[j].widget

\* C4: widgets are painted in ascending order key: in the overlap of two queued
\* widgets of different keys every cell shows the one with the higher key,
\* whichever was pushed first.
C4_HigherKeyWins ==
    CallbackRan =>
        \A i, j \in DOMAIN hist.drained :
            hist.drained[i].z_order < hist.drained[j].z_order =>
                \A c \in Covered(hist.drained[i].area) \cap Covered(hist.drained[j].area) :
                    OverlapShows(i, j, c)

\* The widget of the higher key was pushed first and still shows in the overlap.
C4_Witness ==
    /\ CallbackRan
    /\ \E i, j \in DOMAIN hist.drained :
          /\ j < i
          /\ hist.drained[i].z_order < hist.drained[j].z_order
          /\ \E c \in Covered(hist.drained[i].area) \cap Covered(hist.drained[j].area) :
                PaintedBuffer[c] = hist.drained[j].widget

\* C5: two queued widgets of equal order key are painted in push order: in
\* their overlap every cell shows the one pushed later.
C5_EqualKeyLaterPushWins ==
    CallbackRan =>
        \A i, j \in DOMAIN hist.drained :
            (i < j /\ hist.drained[i].z_order = hist.drained[j].z_order) =>
                \A c \in Covered(hist.drained[i].area) \cap Covered(hist.drained[j].area) :
                    OverlapShows(i, j, c)

\* Two overlapping widgets of equal key, a widget of a lower key pushed between
\* them; the overlap shows the one pushed last.
C5_Witness ==
    /\ CallbackRan
    /\ Len(hist.drained) = 3
    /\ hist.drained[1].z_order = hist.drained[3].z_order
    /\ hist.drained[2].z_order < hist.drained[1].z_order
    /\ \E c \in Covered(hist.drained[1].area) \cap Covered(hist.drained[3].area) :
          PaintedBuffer[c] = hist.drained[3].widget

\* C6 (as claimed): the core paint step runs after the component render systems
\* of the tick, so once the PostUpdate systems of a tick have run (and the draw
\* reached its callback) every widget pushed in the tick has been drained.
C6_PushedPaintedSameTick ==
    (PostUpdateSystems \subseteq done /\ hist.last_draw # "ErrResize") => widgets = <<>>

Interactive == backend = "Crossterm"

\* C7: with the interactive session, an exit signal raised in tick N is followed
\* by the session close in tick N: the process does not exit before the close,
\* tick N+1 never starts, and the tick's paint precedes the close.
C7_CloseWithinExitTick ==
    Interactive =>
        /\ (status = "exited" => hist.close_tick = hist.exit_tick /\ device = "normal")
        /\ (hist.exit_tick # 0 => tick = hist.exit_tick)
        /\ (hist.close_tick # 0 =>
                /\ hist.close_tick = hist.exit_tick
                /\ tick = hist.close_tick
                /\ "render" \in done)

\* The exit was raised in the second tick and the process has exited.
C7_Witness ==
    Interactive /\ status = "exited" /\ hist.exit_tick = 2 /\ hist.close_tick = 2

\* C8: once the interactive session was opened, the process never ends (by an
\* exit signal or by a panic) with the device still in raw mode.
C8_RestoredAtProcessEnd ==
    (Interactive /\ status \in {"exited", "panicked"}) => device = "normal"

\* A panic ended the process before any close on exit; the device is restored.
C8_Witness ==
    Interactive /\ status = "panicked" /\ hist.close_tick = 0 /\ device = "normal"

UpdateRan == hist.last \in UpdateSystems

\* C10 (as claimed): when an update system runs in a tick, the latch refresh of
\* that tick has already run.
C10_RefreshBeforeUpdate == UpdateRan => hist.refresh_tick = tick

\* C10 (amended): the latch refresh of a tick runs after the update systems,
\* the render systems and the paint of that tick; an update system of tick N
\* reads what the refresh of tick N-1 latched (nothing in tick 1).
C10_RefreshAfterUpdate ==
    /\ UpdateRan =>
          /\ hist.refresh_tick = tick - 1
          /\ hist.read = (IF tick = 1 THEN None ELSE NewEvent(hist.polled))
    /\ hist.refresh_tick = tick => (UpdateSystems \cup PostUpdateSystems) \subseteq done

\* Right arrived in tick 1 and was counted in tick 2; nothing arrived in tick 2
\* and change_counter reads an empty latch in tick 3.
C10_Witness ==
    /\ tick = 3 /\ hist.last = "change_counter"
    /\ hist.read = None /\ counter = 1


TickStart == status = "running" /\ done = {}

\* C11 (as claimed): the queue is empty at the start of every tick, before the
\* first update or render system of the tick runs.
C11_QueueEmptyAtTickStart == TickStart => widgets = <<>>

PollFailed == hist.polled \in {"PollErr", "ReadErr"}

\* C12: a failed poll or read during a latch refresh is handled as "no event":
\* the refresh ends normally with the latch as a refresh without input leaves
\* it (empty), and the process keeps running.
C12_PollFailureIsNoEvent ==
    (Refreshed /\ PollFailed) =>
        /\ new_event = None
        /\ event = Latch(hist.before, NewEvent("NoEvent"))
        /\ event = None
        /\ status = "running"
        /\ "get_backend_events" \in done

\* A read failure cleared a latched event in tick 2 and the paint step of
\* tick 3 has run.
C12_Witness ==
    /\ hist.polled = "ReadErr" /\ hist.before # None /\ event = None
    /\ hist.refresh_tick = 2 /\ tick = 3 /\ Painted /\ status = "running"


Headless == backend = "Test"

\* C13 (as claimed): with the headless backend the exit handling of a tick
\* completes without restoring any device and without failing.
C13_HeadlessCloseIsNoOp ==
    (Headless /\ hist.last = "cleanup_on_exit") =>
        status = "running" /\ device = "normal" /\ hist.closes = 0


PaintStep == "render" \notin done /\ "render" \in done'

\* C15 (as claimed): a successful paint step that paints zero widgets leaves
\* the frame showing exactly what it showed before.
C15_NoClearBetweenTicks ==
    [][(PaintStep /\ widgets = <<>> /\ hist'.last_draw = "Ok") => screen' = screen]_vars

\* C15 (amended): the frame is cleared between ticks. A completed draw resets
\* the buffer the next draw paints into, so a successful paint step that paints
\* zero widgets presents a blank frame, whatever the tick before painted
\* (unless the draw before it failed after painting: hist.stale).
C15_EmptyPaintBlanksFrame ==
    (Painted /\ hist.last_draw = "Ok" /\ hist.drained = <<>> /\ ~hist.stale) =>
        screen = BlankBuffer

\* Tick 1 painted and presented app's widget; the paint step of tick 2 ran
\* before any render system, painted nothing, and the frame is blank.
C15_Witness ==
    /\ tick = 2 /\ Painted /\ hist.last_draw = "Ok" /\ hist.drained = <<>>
    /\ ~hist.stale /\ hist.paint_count[WidgetOf("app_render", 1)] = 1
    /\ screen = BlankBuffer


PaintAttempted == hist.last \in {"render", "render_panic"}

\* C16 (as claimed): a widget pushed with an area partly or fully outside the
\* buffer is queued like any other and is no error at paint: the paint step
\* ends normally and the widget's mark appears only in cells of the
\* intersection of its area with the buffer.
C16_OutOfBoundsClipped ==
    (PaintAttempted /\ \E k \in DOMAIN hist.drained : ~Fits(hist.drained[k].area)) =>
        /\ status = "running"
        /\ \A k \in DOMAIN hist.drained : \A c \in Cells :
              PaintedBuffer[c] = hist.drained[k].widget => c \in Covered(hist.drained[k].area)


NoPaintYet == hist.last_draw = "None"

\* C17: with the headless backend of Width x Height, the frame obtained before
\* any paint has exactly that area and every cell blank.
C17_HeadlessInitialFrame ==
    (Headless /\ NoPaintYet) =>
        /\ get_frame.area = Rect(0, 0, Width, Height)
        /\ DOMAIN get_frame.buffer = (0 .. Width - 1) \X (0 .. Height - 1)
        /\ \A c \in DOMAIN get_frame.buffer : get_frame.buffer[c] = Blank

\* app's render system has taken the frame in the first tick, before the
\* first paint step.
C17_Witness ==
    /\ Headless /\ NoPaintYet /\ tick = 1 /\ hist.last = "app_render"
    /\ get_frame.area = FrameArea


DrawFailed == hist.last_draw \in {"ErrResize", "ErrFlush"}

\* C18: a failed paint or present is not escalated: the paint step ends
\* normally, the process keeps running with the tick's paint step done, and in
\* a later tick the paint step is run again.
C18_PaintFailureNotEscalated ==
    /\ (Painted /\ DrawFailed) => (status = "running" /\ "render" \in done)
    /\ (DrawFailed /\ status = "running" /\ Schedule = "PostUpdate") =>
          ("render" \in done \/ CanRun("render"))

\* The draw of tick 1 failed while presenting; the paint step of tick 2 ran
\* again and succeeded.
C18_Witness ==
    /\ tick = 2 /\ Painted /\ hist.last_draw = "Ok" /\ hist.stale
    /\ status = "running"


\* C19: an exit signal raised by an update system does not cut its tick short:
\* while the tick lasts its remaining systems still run, and the process exits
\* only when every system of the tick (render systems, paint, latch refresh,
\* cleanup) has run.
C19_ExitOnlyAtTickBoundary ==
    /\ status = "exited" =>
          /\ AllSystems \subseteq done
          /\ tick = hist.exit_tick
          /\ hist.refresh_tick = tick
    /\ (exits /\ status = "running" /\ Schedule # "End") =>
          \E s \in AllSystems : CanRun(s)

\* The exit was raised in tick 2; app's widget of tick 2 was pushed and painted
\* and the latch refreshed before the process exited.
C19_Witness ==
    /\ status = "exited" /\ hist.exit_tick = 2 /\ hist.refresh_tick = 2
    /\ hist.paint_count[WidgetOf("app_render", 2)] = 1


\* TuiPlugin::build has stopped at expect("test backend requires size").
SizeMissing == status = "panicked" /\ hist.last = "SizeMissing"

PublicConstructors == {"new", "default", "test_backend"}
Public == app.via \in PublicConstructors

\* C21: a TuiPlugin or RatatEcsPlugins value made by new, default or
\* test_backend has a size exactly when its backend is Test, so building it
\* never stops at "test backend requires size".
C21_PublicValuesWellFormed ==
    Public =>
        /\ (app.plugin.backend = "Test") <=> (app.plugin.size # NoSize)
        /\ ~SizeMissing
        /\ AtStep("terminal") => "SizeMissing" \notin TerminalOutcomes(app.plugin)

\* A group made by test_backend was built up to the terminal and past it.
C21_Witness ==
    /\ app.via = "test_backend" /\ app.plugins = GroupPlugins
    /\ app.plugin.backend = "Test" /\ app.plugin.size = Some(<<Width, Height>>)
    /\ "TerminalWrapper" \in app.resources /\ status = "running"


\* The order in which the callback painted the queue it drained last.
PaintOrder == sort_by_key(hist.drained)

\* The panel a unit comes from: Clear is pushed by the popup alone, every other
\* unit carries the mark of its render system.
IsClear(sw) == sw.widget = Clear
IsPopupParagraph(sw) ==
    ~IsClear(sw) /\ \E t \in 1 .. MaxTick : sw.widget = WidgetOf("popup_render", t)
IsPopupUnit(sw) == IsClear(sw) \/ IsPopupParagraph(sw)

\* C22: in every paint step that drains units of the popup, each Clear is
\* painted immediately before a paragraph of the popup and each paragraph
\* immediately after a Clear, no unit of the app border, the counter or the
\* progress panel is painted after a unit of the popup, and a presented frame
\* shows the paragraph painted last on the whole popup area - in whatever
\* order the render systems ran. While the popup is Closed its render system
\* pushes no unit.
C22_PopupPaintedLastClearFirst ==
    /\ CallbackRan =>
          LET order == PaintOrder
          IN  /\ \A i \in DOMAIN order :
                    /\ IsClear(order[i]) =>
                          i < Len(order) /\ IsPopupParagraph(order[i + 1])
                    /\ IsPopupParagraph(order[i]) => i > 1 /\ IsClear(order[i - 1])
                    /\ IsPopupUnit(order[i]) =>
                          \A j \in DOMAIN order : ~IsPopupUnit(order[j]) => j < i
              /\ (\E i \in DOMAIN order : IsPopupUnit(order[i])) =>
                    \A c \in Covered(PanelArea("popup_render")) :
                        screen[c] = order[Len(order)].widget
    /\ (app.state = "Closed" /\ "apply_state_transition" \in done) =>
          /\ \A k \in DOMAIN widgets : widgets[k].widget # WidgetOf("popup_render", tick)
          /\ \A k \in DOMAIN hist.drained :
                hist.drained[k].widget # WidgetOf("popup_render", tick)

\* The popup's render system ran first in its tick, before the three other
\* panels; the paint step drained all five units and presented the frame.
C22_Witness ==
    /\ Painted /\ hist.last_draw = "Ok" /\ app.state = "Open"
    /\ Len(hist.drained) = 5
    /\ IsClear(hist.drained[1]) /\ IsPopupParagraph(hist.drained[2])
    /\ hist.drained[5].z_order = 0

====
